---- MODULE Spec2Model ----
(***************************************************************************)
(* Model of the performance-record endpoints of src/app.py:                *)
(* save_performance, fetch_data, export_excel, export_pdf and backup_db,   *)
(* over one PostgreSQL table reached through a psycopg2 connection pool.   *)
(*                                                                         *)
(* Numbers.  A Python float is a record [k, n]: k = "fin" with n the value *)
(* in units of 1/200 (so that eighths and hundredths are both integers),   *)
(* or k = "nan" / "inf" / "ninf".  The finite inputs the model draws are   *)
(* multiples of 1/8: binary floating point represents them and their sums  *)
(* exactly, so round(x, 2) is the exact round-half-even of the decimal.    *)
(*                                                                         *)
(* Strings are sequences of one-character strings; "NUL" stands for the    *)
(* character U+0000.                                                       *)
(***************************************************************************)
EXTENDS Integers, Sequences, FiniteSets, TLC

VARIABLES configured, table, used, req, resp, obs

vars == <<configured, table, used, req, resp, obs>>

(***************************************************************************)
(* Bounds of the model                                                     *)
(***************************************************************************)
MaxRows == 2
MaxTime == 2
TicksPerMinute == 2

(* Program constants *)
PoolMax == 10
FetchLimit == 1000
PdfLimit == 200

(***************************************************************************)
(* Floats                                                                  *)
(***************************************************************************)
Scale == 2 * 100

Fin(n) == [k |-> "fin", n |-> n]
NaN == [k |-> "nan", n |-> 0]
PosInf == [k |-> "inf", n |-> 0]
NegInf == [k |-> "ninf", n |-> 0]

\* IEEE addition, as Python's float + float
FAdd(x, y) ==
  IF x.k = "nan" \/ y.k = "nan" THEN NaN
  ELSE IF x.k = "fin" /\ y.k = "fin" THEN Fin(x.n + y.n)
  ELSE IF x.k = "fin" THEN y
  ELSE IF y.k = "fin" THEN x
  ELSE IF x.k = y.k THEN x
  ELSE NaN

\* Python's round(x, 2): nearest hundredth, an exact tie to the even hundredth;
\* nan and the infinities are returned unchanged
Round2(x) ==
  IF x.k # "fin" THEN x
  ELSE LET q == x.n \div 2
       IN  IF x.n % 2 = 0 THEN x
           ELSE IF q % 2 = 0 THEN Fin(2 * q) ELSE Fin(2 * (q + 1))

(***************************************************************************)
(* JSON values of a request body.  A value is [k, n, s]:                   *)
(*   "missing"  the key is absent from the mapping                         *)
(*   "null"     JSON null (Python None)                                    *)
(*   "num"      a JSON number, n in units of 1/200                         *)
(*   "nan"      the JSON literal NaN, which json.loads accepts             *)
(*   "str"      a JSON string, s its characters                            *)
(*   "list"     a non-empty JSON array (a non-scalar)                      *)
(***************************************************************************)
Missing == [k |-> "missing", n |-> 0, s |-> <<>>]
Null == [k |-> "null", n |-> 0, s |-> <<>>]
Num(n) == [k |-> "num", n |-> n, s |-> <<>>]
JNaN == [k |-> "nan", n |-> 0, s |-> <<>>]
Str(s) == [k |-> "str", n |-> 0, s |-> s]
JList == [k |-> "list", n |-> 0, s |-> <<>>]

\* dict.get(key): None when the key is absent
Get(r, key) == IF r[key].k = "missing" THEN Null ELSE r[key]

\* Python truth value, as tested by `not lid`
Truthy(v) ==
  CASE v.k = "null" -> FALSE
    [] v.k = "missing" -> FALSE
    [] v.k = "num" -> v.n # 0
    [] v.k = "str" -> v.s # <<>>
    [] OTHER -> TRUE

(***************************************************************************)
(* float(str)                                                              *)
(***************************************************************************)
IsSpace(c) == c \in {" ", "\t", "\n"}

RECURSIVE LStrip(_)
LStrip(s) == IF s # <<>> /\ IsSpace(Head(s)) THEN LStrip(Tail(s)) ELSE s

RECURSIVE RStrip(_)
RStrip(s) ==
  IF s # <<>> /\ IsSpace(s[Len(s)]) THEN RStrip(SubSeq(s, 1, Len(s) - 1)) ELSE s

Strip(s) == RStrip(LStrip(s))

DigitChars == {"0", "1", "2", "3", "4", "5", "6", "7", "8", "9"}

DigitVal(c) ==
  CASE c = "0" -> 0 [] c = "1" -> 1 [] c = "2" -> 2 [] c = "3" -> 3
    [] c = "4" -> 4 [] c = "5" -> 5 [] c = "6" -> 6 [] c = "7" -> 7
    [] c = "8" -> 8 [] c = "9" -> 9

AllDigits(s) == \A i \in 1..Len(s) : s[i] \in DigitChars

RECURSIVE DigitsVal(_)
DigitsVal(s) ==
  IF s = <<>> THEN 0
  ELSE 10 * DigitsVal(SubSeq(s, 1, Len(s) - 1)) + DigitVal(s[Len(s)])

\* position of the first "." of s, 0 when there is none
RECURSIVE DotPos(_, _)
DotPos(s, i) ==
  IF i > Len(s) THEN 0 ELSE IF s[i] = "." THEN i ELSE DotPos(s, i + 1)

\* the fraction digits f (at most three, the third 0 or 5) in units of 1/200
FracUnits(f) ==
  LET pad == IF Len(f) = 0 THEN 0
             ELSE IF Len(f) = 1 THEN 100 * DigitsVal(f)
             ELSE IF Len(f) = 2 THEN 10 * DigitsVal(f)
             ELSE DigitsVal(f)
  IN  pad \div 5

\* an unsigned decimal literal: digits, digits "." digits*, or "." digits+
IsDecimal(s) ==
  LET p == DotPos(s, 1)
  IN  IF p = 0 THEN s # <<>> /\ AllDigits(s)
      ELSE /\ Len(s) > 1
           /\ AllDigits(SubSeq(s, 1, p - 1))
           /\ AllDigits(SubSeq(s, p + 1, Len(s)))

DecimalVal(s) ==
  LET p == DotPos(s, 1)
  IN  IF p = 0 THEN Scale * DigitsVal(s)
      ELSE Scale * DigitsVal(SubSeq(s, 1, p - 1))
             + FracUnits(SubSeq(s, p + 1, Len(s)))

\* float(s) for a string: [ok |-> FALSE] stands for ValueError
ParseFloat(s) ==
  LET t == Strip(s)
      neg == t # <<>> /\ Head(t) = "-"
      u == IF t # <<>> /\ Head(t) \in {"-", "+"} THEN Tail(t) ELSE t
  IN  IF u = <<"n", "a", "n">> THEN [ok |-> TRUE, v |-> NaN]
      ELSE IF u = <<"i", "n", "f">>
        THEN [ok |-> TRUE, v |-> IF neg THEN NegInf ELSE PosInf]
      ELSE IF IsDecimal(u)
        THEN [ok |-> TRUE,
              v |-> Fin(IF neg THEN 0 - DecimalVal(u) ELSE DecimalVal(u))]
      ELSE [ok |-> FALSE, v |-> Fin(0)]

\* float(v): [ok |-> FALSE] stands for the TypeError / ValueError it raises
PyFloat(v) ==
  CASE v.k = "num" -> [ok |-> TRUE, v |-> Fin(v.n)]
    [] v.k = "nan" -> [ok |-> TRUE, v |-> NaN]
    [] v.k = "str" -> ParseFloat(v.s)
    [] OTHER -> [ok |-> FALSE, v |-> Fin(0)]

\* safe_float of a request value
safe_float(v) == IF PyFloat(v).ok THEN PyFloat(v).v ELSE Fin(0)

\* compute_total of four floats (safe_float of a float is that float)
compute_total(u, a, c, b) == Round2(FAdd(FAdd(FAdd(u, a), c), b))

(***************************************************************************)
(* Request bodies of save_performance.  A body is [kind, items]:           *)
(*   "list"     a JSON array, items its elements                           *)
(*   "object"   a JSON object or string: iterating it yields its keys or   *)
(*              characters, which are str and have no .get                 *)
(*   "scalar"   a JSON number, boolean or null: not iterable               *)
(*   "badjson"  a body that is not JSON: get_json raises                   *)
(* An element is a mapping (isMap) with the seven fields, or not a mapping.*)
(***************************************************************************)
Item(lid, rid, u, a, c, b, tot) ==
  [isMap |-> TRUE, lesson_id |-> lid, learner_id |-> rid, understanding |-> u,
   application |-> a, communication |-> c, behavior |-> b, total |-> tot]

NonMap ==
  [isMap |-> FALSE, lesson_id |-> Missing, learner_id |-> Missing,
   understanding |-> Missing, application |-> Missing,
   communication |-> Missing, behavior |-> Missing, total |-> Missing]

ListBody(items) == [kind |-> "list", items |-> items]
ObjectBody(n) == [kind |-> "object", items |-> [i \in 1..n |-> NonMap]]
ScalarBody == [kind |-> "scalar", items |-> <<>>]
BadJson == [kind |-> "badjson", items |-> <<>>]

(***************************************************************************)
(* psycopg2 and PostgreSQL                                                 *)
(***************************************************************************)
\* psycopg2 adapts a str parameter on the client before anything is sent, and
\* raises ValueError for a string that holds a NUL character
Adaptable(v) == v.k = "str" /\ \A i \in 1..Len(v.s) : v.s[i] # "NUL"

\* A fault of the store during a request: kind "none", or kind "stmt" (the
\* server rejects the statement) or "lost" (the connection drops) at the
\* at-th call of cur.execute
NoFault == [kind |-> "none", at |-> 0]

\* Outcome of one cur.execute(INSERT ...) in transaction state tx.  psycopg2
\* runs without autocommit: a statement the server rejects leaves the
\* transaction aborted and every later statement is rejected too.
ExecOutcome(tx, lid, rid, fault, call) ==
  IF ~Adaptable(lid) \/ ~Adaptable(rid) THEN "client_error"
  ELSE IF tx = "lost" THEN "closed"
  ELSE IF tx = "aborted" THEN "in_failed_tx"
  ELSE IF fault.at = call THEN fault.kind
  ELSE "ok"

TxAfter(tx, outcome) ==
  CASE outcome = "ok" -> "intrans"
    [] outcome = "stmt" -> "aborted"
    [] outcome = "lost" -> "lost"
    [] OTHER -> tx

\* a commit that replaces the table by the new rows
Commit_overwrite(tbl, tx, pending) == IF tx = "intrans" THEN pending ELSE tbl

\* conn.commit(): COMMIT of an aborted transaction is a rollback and does not
\* raise; the pending rows of a live transaction are appended to the table
Commit(tbl, tx, pending) == IF tx = "intrans" THEN tbl \o pending ELSE tbl

(***************************************************************************)
(* save_perf                                                               *)
(***************************************************************************)
\* a row whose total is the one the client sent
MakeRow_clientTotal(r, id, now) ==
  [id |-> id,
   lesson_id |-> Get(r, "lesson_id").s,
   learner_id |-> Get(r, "learner_id").s,
   understanding |-> safe_float(Get(r, "understanding")),
   application |-> safe_float(Get(r, "application")),
   communication |-> safe_float(Get(r, "communication")),
   behavior |-> safe_float(Get(r, "behavior")),
   total |-> safe_float(Get(r, "total")),
   timestamp |-> now]

\* the row of the INSERT for mapping r: the ids as submitted, the four scores
\* through safe_float, the total recomputed from them, datetime.now()
MakeRow(r, id, now) ==
  LET u == safe_float(Get(r, "understanding"))
      a == safe_float(Get(r, "application"))
      c == safe_float(Get(r, "communication"))
      b == safe_float(Get(r, "behavior"))
  IN  [id |-> id,
       lesson_id |-> Get(r, "lesson_id").s,
       learner_id |-> Get(r, "learner_id").s,
       understanding |-> u, application |-> a,
       communication |-> c, behavior |-> b,
       total |-> compute_total(u, a, c, b),
       timestamp |-> now]

\* a skip that tests the lesson_id alone
Skipped_lessonOnly(r) == ~Truthy(Get(r, "lesson_id"))

\* `if not lid or not rid: continue`
Skipped(r) == ~Truthy(Get(r, "lesson_id")) \/ ~Truthy(Get(r, "learner_id"))

LoopStart ==
  [raised |-> FALSE, tx |-> "idle", pending |-> <<>>,
   execs |-> 0, failed |-> 0, skipped |-> 0]

\* one iteration of `for r in data`; tss are the readings of datetime.now(),
\* baseId the last id in the table (ids are given in insertion order; the
\* gaps a rolled-back INSERT leaves in a PostgreSQL sequence are not kept)
LoopStep(L, r, fault, tss, baseId) ==
  IF ~r.isMap THEN [L EXCEPT !.raised = TRUE]
  ELSE IF Skipped(r) THEN [L EXCEPT !.skipped = @ + 1]
  ELSE LET call == L.execs + 1
           out == ExecOutcome(L.tx, Get(r, "lesson_id"), Get(r, "learner_id"),
                              fault, call)
           row == MakeRow(r, baseId + Len(L.pending) + 1, tss[call])
       IN  [L EXCEPT !.execs = call,
                     !.tx = TxAfter(L.tx, out),
                     !.failed = IF out = "ok" THEN @ ELSE @ + 1,
                     !.pending = IF out = "ok" THEN Append(@, row) ELSE @]

RECURSIVE RunLoop(_, _, _, _, _, _)
RunLoop(items, i, L, fault, tss, baseId) ==
  IF i > Len(items) \/ L.raised THEN L
  ELSE RunLoop(items, i + 1, LoopStep(L, items[i], fault, tss, baseId),
               fault, tss, baseId)

\* the elements of the body that reach cur.execute, in order
RECURSIVE Reaching(_, _)
Reaching(items, i) ==
  IF i > Len(items) \/ ~items[i].isMap THEN <<>>
  ELSE (IF Skipped(items[i]) THEN <<>> ELSE <<items[i]>>)
         \o Reaching(items, i + 1)

\* number of calls of cur.execute, each with its reading of datetime.now()
NowCalls(items) == Len(Reaching(items, 1))

ErrorResp(code) == [status |-> code, kind |-> "error", n |-> 0, rows |-> <<>>, ids |-> <<>>]
MessageResp(n) == [status |-> 200, kind |-> "message", n |-> n, rows |-> <<>>, ids |-> <<>>]

NoObs ==
  [acquired |-> FALSE, returned |-> FALSE, execs |-> 0, failed |-> 0,
   skipped |-> 0, committed |-> 0]

save_perf(body, fault, tss) ==
  /\ req' = [op |-> "save_performance", body |-> body, fault |-> fault, tss |-> tss]
  /\ UNCHANGED configured
  /\ IF ~configured
       THEN /\ resp' = ErrorResp(503)
            /\ obs' = NoObs
            /\ UNCHANGED <<table, used>>
     ELSE IF body.kind = "badjson" \/ used >= PoolMax
       THEN \* get_json raises, or pool.getconn raises PoolError
            /\ resp' = ErrorResp(500)
            /\ obs' = NoObs
            /\ UNCHANGED <<table, used>>
     ELSE LET L == RunLoop(body.items, 1, LoopStart, fault, tss, Len(table))
              through == body.kind # "scalar" /\ ~L.raised /\ L.tx # "lost"
              newtable == Commit(table, L.tx, L.pending)
          IN  /\ table' = IF through THEN newtable ELSE table
              /\ used' = IF through THEN used ELSE used + 1
              /\ resp' = IF through THEN MessageResp(Len(body.items))
                         ELSE ErrorResp(500)
              /\ obs' = [acquired |-> TRUE, returned |-> through,
                         execs |-> L.execs, failed |-> L.failed,
                         skipped |-> L.skipped,
                         committed |-> IF through THEN Len(newtable) - Len(table)
                                       ELSE 0]

(***************************************************************************)
(* Reading: fetch_data, export_excel, export_pdf, backup_db                *)
(***************************************************************************)
\* lower-casing of the letters the model draws
Lower(c) ==
  CASE c = "A" -> "a" [] c = "B" -> "b" [] c = "L" -> "l" [] OTHER -> c

\* PostgreSQL's s ILIKE p: "%" matches any run of characters, "_" any one
\* character, every other character itself without regard to case (the
\* model draws no backslash, the escape character)
RECURSIVE ILike(_, _)
ILike(s, p) ==
  IF p = <<>> THEN s = <<>>
  ELSE IF Head(p) = "%"
    THEN ILike(s, Tail(p)) \/ (s # <<>> /\ ILike(Tail(s), p))
  ELSE IF Head(p) = "_" THEN s # <<>> /\ ILike(Tail(s), Tail(p))
  ELSE s # <<>> /\ Lower(Head(s)) = Lower(Head(p)) /\ ILike(Tail(s), Tail(p))

\* A `from` / `to` parameter is [k, n]: "absent" (or empty), "time" (a
\* timestamp PostgreSQL can read, n its value) or "bad" (any other text)
Absent == [k |-> "absent", n |-> 0]
At(n) == [k |-> "time", n |-> n]
BadTime == [k |-> "bad", n |-> 0]

\* the WHERE clause built by fetch_data
Where(row, lid, fromd, tod) ==
  /\ lid # <<>> => ILike(row.learner_id, <<"%">> \o lid \o <<"%">>)
  /\ fromd.k # "absent" => row.timestamp >= fromd.n
  /\ tod.k # "absent" => row.timestamp <= tod.n

\* the orders in which the rows with ids in S may come back from
\* ORDER BY timestamp DESC: rows of equal timestamp in any order
Orders(tbl, S) ==
  {o \in [1..Cardinality(S) -> S] :
     /\ \A i, j \in 1..Cardinality(S) : i # j => o[i] # o[j]
     /\ \A i, j \in 1..Cardinality(S) :
          i < j => tbl[o[i]].timestamp >= tbl[o[j]].timestamp}

\* the orders of a SELECT without ORDER BY: any
AnyOrder(S) ==
  {o \in [1..Cardinality(S) -> S] :
     \A i, j \in 1..Cardinality(S) : i # j => o[i] # o[j]}

\* LIMIT n
Limit(o, n) == SubSeq(o, 1, IF Len(o) < n THEN Len(o) ELSE n)

\* strftime("%Y-%m-%d %H:%M"): the timestamp cut to its minute
StrfTime(t) == t \div TicksPerMinute

\* one element of the JSON array fetch_data returns
Formatted(row) ==
  [lesson_id |-> row.lesson_id, learner_id |-> row.learner_id,
   understanding |-> row.understanding, application |-> row.application,
   communication |-> row.communication, behavior |-> row.behavior,
   total |-> row.total, timestamp |-> StrfTime(row.timestamp)]

RowsResp(tbl, o) ==
  [status |-> 200, kind |-> "rows", n |-> Len(o),
   rows |-> [i \in 1..Len(o) |-> Formatted(tbl[o[i]])], ids |-> o]

FileResp(o) ==
  [status |-> 200, kind |-> "file", n |-> Len(o), rows |-> <<>>, ids |-> o]

ReadObs(ok) ==
  [acquired |-> TRUE, returned |-> ok, execs |-> 0, failed |-> 0,
   skipped |-> 0, committed |-> 0]

\* The common shape of the four readers: 503 without a pool, 500 when the
\* pool is exhausted; a query that raises skips put_conn; otherwise the
\* connection is returned and one of the possible responses is sent
Reader(queryFails, responses) ==
  /\ UNCHANGED <<configured, table>>
  /\ IF ~configured
       THEN resp' = ErrorResp(503) /\ obs' = NoObs /\ UNCHANGED used
     ELSE IF used >= PoolMax
       THEN resp' = ErrorResp(500) /\ obs' = NoObs /\ UNCHANGED used
     ELSE IF queryFails
       THEN resp' = ErrorResp(500) /\ obs' = ReadObs(FALSE) /\ used' = used + 1
     ELSE /\ resp' \in responses
          /\ obs' = ReadObs(TRUE)
          /\ UNCHANGED used

\* lost: the connection drops during the query
fetch_data(lid, fromd, tod, lost) ==
  /\ req' = [op |-> "fetch_data", lid |-> lid, fromd |-> fromd, tod |-> tod,
             lost |-> lost]
  /\ Reader(lost \/ fromd.k = "bad" \/ tod.k = "bad",
            {RowsResp(table, Limit(o, FetchLimit)) :
               o \in Orders(table, {i \in 1..Len(table) :
                                      Where(table[i], lid, fromd, tod)})})

export_excel(lost) ==
  /\ req' = [op |-> "export_excel", lost |-> lost]
  /\ Reader(lost, {FileResp(o) : o \in Orders(table, 1..Len(table))})

export_pdf(lost) ==
  /\ req' = [op |-> "export_pdf", lost |-> lost]
  /\ Reader(lost, {FileResp(Limit(o, PdfLimit)) :
                     o \in Orders(table, 1..Len(table))})

backup_db(lost) ==
  /\ req' = [op |-> "backup_db", lost |-> lost]
  /\ Reader(lost, {FileResp(o) : o \in AnyOrder(1..Len(table))})

(***************************************************************************)
(* Requests the model draws                                                *)
(***************************************************************************)
\* a record with padded ids, mixed score fields and a forged total:
\* 0.125 + 1.5 + 0 + 0 = 1.625, which rounds to 1.62
ItemA ==
  Item(Str(<<" ", "L">>), Str(<<"b", " ">>), Num(25), Str(<<"1", ".", "5">>),
       Null, Missing, Num(99 * Scale))
\* a whitespace-only learner_id, and a NaN score
ItemW ==
  Item(Str(<<"L">>), Str(<<" ">>), Num(Scale), JNaN, Missing, Missing, Missing)
\* no lesson_id
ItemM ==
  Item(Missing, Str(<<"b">>), Num(Scale), Missing, Missing, Missing, Missing)
\* an empty learner_id
ItemE ==
  Item(Str(<<"L">>), Str(<<>>), Num(Scale), Missing, Missing, Missing, Missing)
\* a learner_id that holds a NUL character
ItemZ ==
  Item(Str(<<"L">>), Str(<<"b", "NUL">>), Num(Scale), Missing, Missing,
       Missing, Missing)

SaveBodies ==
  {ListBody(<<>>), ListBody(<<ItemA>>), ListBody(<<ItemA, ItemW>>),
   ListBody(<<ItemM, ItemA>>), ListBody(<<ItemE>>),
   ListBody(<<ItemA, ItemZ>>), ListBody(<<ItemA, NonMap>>),
   ObjectBody(0), ObjectBody(1), ScalarBody, BadJson}

\* the faults of the store that can strike a request: at any statement
\* that reaches the server
Faults(body) ==
  LET sent == Reaching(body.items, 1)
  IN  {NoFault} \cup
      {[kind |-> k, at |-> i] :
         k \in {"stmt", "lost"},
         i \in {j \in 1..Len(sent) :
                  Adaptable(sent[j].lesson_id) /\ Adaptable(sent[j].learner_id)}}

\* successive readings of datetime.now() within one request.  The clock is
\* the naive local wall clock: it does not go back within a request, but two
\* requests (of concurrent workers, or across a clock adjustment) may read
\* the same or an earlier time
Readings(n) ==
  {s \in [1..n -> 1..MaxTime] : \A i, j \in 1..n : i < j => s[i] <= s[j]}

FetchArgs ==
  {<<(<<>>), Absent, Absent>>, <<(<<"b">>), At(1), Absent>>,
   <<(<<>>), Absent, At(1)>>, <<(<<>>), BadTime, Absent>>}

NoReq == [op |-> "none"]

Init ==
  /\ configured \in BOOLEAN
  /\ table = <<>>
  /\ used = 0
  /\ req = NoReq
  /\ resp = ErrorResp(0)
  /\ obs = NoObs

\* A save_performance request; cap bounds the rows the table may hold
Save(bodies, faulty, cap) ==
  \E body \in bodies :
    \E fault \in (IF faulty THEN Faults(body) ELSE {NoFault}) :
      \E tss \in Readings(NowCalls(body.items)) :
        /\ Len(table) + NowCalls(body.items) <= cap
        /\ save_perf(body, fault, tss)

Fetch(args, faulty) ==
  \E a \in args :
    \E lost \in (IF faulty THEN BOOLEAN ELSE {FALSE}) :
      fetch_data(a[1], a[2], a[3], lost)

Export ==
  \E lost \in BOOLEAN :
    export_excel(lost) \/ export_pdf(lost) \/ backup_db(lost)

Next == Save(SaveBodies, TRUE, MaxRows) \/ Fetch(FetchArgs, TRUE) \/ Export

Spec == Init /\ [][Next]_vars

(***************************************************************************)
(* Score normalisation: one record saved into the empty table, its first   *)
(* two score fields drawn from every kind of JSON value                    *)
(***************************************************************************)
ScoreValues ==
  {Num(25), Num(0 - Scale), Str(<<"1", ".", "5">>), Str(<<" ", "2", " ">>),
   Str(<<"-", ".", "1", "2", "5">>), Str(<<"a", "b", "c">>), Str(<<>>),
   Str(<<"1", ".", "2", ".", "3">>), Str(<<"n", "a", "n">>),
   Str(<<"i", "n", "f">>), Null, Missing, JNaN, JList}

NormBodies ==
  {ListBody(<<Item(Str(<<"L">>), Str(<<"b">>), u, a, Missing, Missing, Missing)>>) :
     u \in ScoreValues, a \in {Missing, Num(Scale), Str(<<"a", "b", "c">>), JNaN}}

NextNorm == Save(NormBodies, FALSE, 1)

SpecNorm == Init /\ [][NextNorm]_vars

(***************************************************************************)
(* Listing: learner ids that differ in case and filters that hold the      *)
(* LIKE metacharacters, over tables whose rows may share a timestamp       *)
(***************************************************************************)
ListBodies ==
  {ListBody(<<Item(Str(<<"L">>), Str(rid), Num(Scale), Missing, Missing,
                   Missing, Missing)>>) :
     rid \in {<<"A", "b">>, <<"x", "b">>}}

ListArgs ==
  {<<lid, fromd, tod>> :
     lid \in {<<>>, <<"a">>, <<"B">>, <<"a", "b">>, <<"_">>, <<"%">>},
     fromd \in {Absent, At(1), At(2)},
     tod \in {Absent, At(1)}}

NextList == Save(ListBodies, FALSE, MaxRows) \/ Fetch(ListArgs, FALSE)

SpecList == Init /\ [][NextList]_vars

(***************************************************************************)
(* Properties                                                              *)
(***************************************************************************)
IsSave == req.op = "save_performance"
IsFetch == req.op = "fetch_data"
ReadOps == {"fetch_data", "export_excel", "export_pdf", "backup_db"}

\* round(understanding + application + communication + behavior, 2) of a row.
\* Equality of floats below is PostgreSQL's, under which NaN equals NaN.
RowSum(row) ==
  Round2(FAdd(FAdd(FAdd(row.understanding, row.application),
                   row.communication), row.behavior))

\* the elements of a body that are mappings with both ids present
WellFormed(body) ==
  {i \in 1..Len(body.items) : body.items[i].isMap /\ ~Skipped(body.items[i])}

IsSeqOfMappings(body) ==
  body.kind = "list" /\ \A i \in 1..Len(body.items) : body.items[i].isMap

IsPrefix(s, t) == Len(s) <= Len(t) /\ SubSeq(t, 1, Len(s)) = s

\* C1: every stored row, and so every record fetch_data returns, has
\* total = round(understanding + application + communication + behavior, 2)
\* over the stored scores, whatever total the client sent
TotalIsRoundedSum ==
  /\ \A i \in 1..Len(table) : table[i].total = RowSum(table[i])
  /\ resp.kind = "rows" =>
       \A i \in 1..Len(resp.rows) : resp.rows[i].total = RowSum(resp.rows[i])

\* a request that sent total = 99 has stored a row whose total is 1.62
ForgedTotalStored ==
  /\ IsSave
  /\ obs.committed >= 1
  /\ \E i \in 1..Len(req.body.items) :
       /\ req.body.items[i].total = Num(99 * Scale)
       /\ table[Len(table) - obs.committed + 1].total = Fin(324)

\* C2: after a save_performance request either all well-formed records of
\* the batch are persisted or none is; never only some of them
AllOrNothing ==
  IsSave => \/ obs.committed = Cardinality(WellFormed(req.body))
            \/ obs.committed = 0

\* C3: when the insert of any record of the batch fails, the response is an
\* error with a non-2xx status
FailureIsReported ==
  IsSave /\ obs.failed > 0 =>
    resp.kind = "error" /\ resp.status \notin 200..299

\* C4: the count in the success message is the number of rows the request
\* inserted
CountIsInserted ==
  IsSave /\ resp.kind = "message" => resp.n = obs.committed

\* C5: a body that is not a sequence of mappings is answered 400 with no
\* connection taken from the pool and no INSERT executed
RejectedBeforeStorage ==
  IsSave /\ configured /\ ~IsSeqOfMappings(req.body) =>
    resp.status = 400 /\ ~obs.acquired /\ obs.execs = 0

\* what the normalisation of a score field must give: the number for a
\* number or a numeric string, 0.0 for everything else, NaN included
Expected(v) ==
  IF v.k = "num" THEN Fin(v.n)
  ELSE IF v.k = "str" /\ ParseFloat(v.s).ok /\ ParseFloat(v.s).v.k # "nan"
    THEN ParseFloat(v.s).v
  ELSE Fin(0)

\* C6: score normalisation never raises, gives exactly 0.0 for every
\* conversion failure including NaN and the parsed number otherwise, so the
\* record is stored whatever its score fields hold
NormalizedOrZero ==
  IsSave /\ configured =>
    /\ resp.status = 200
    /\ obs.committed = 1
    /\ table[1].understanding = Expected(req.body.items[1].understanding)
    /\ table[1].application = Expected(req.body.items[1].application)

\* C7: every stored lesson_id and learner_id is the submitted string with
\* surrounding whitespace removed, so none begins or ends with whitespace
StoredIdsTrimmed ==
  /\ \A i \in 1..Len(table) :
       /\ table[i].lesson_id = Strip(table[i].lesson_id)
       /\ table[i].learner_id = Strip(table[i].learner_id)
  /\ IsSave /\ Len(req.body.items) = 1 /\ obs.committed = 1 =>
       /\ table[Len(table)].lesson_id = Strip(req.body.items[1].lesson_id.s)
       /\ table[Len(table)].learner_id = Strip(req.body.items[1].learner_id.s)

\* C8: fetch_data returns records by descending timestamp, records of equal
\* timestamp by descending id
NewestFirstThenId ==
  IsFetch /\ resp.kind = "rows" =>
    \A i, j \in 1..Len(resp.ids) :
      i < j =>
        \/ table[resp.ids[i]].timestamp > table[resp.ids[j]].timestamp
        \/ /\ table[resp.ids[i]].timestamp = table[resp.ids[j]].timestamp
           /\ resp.ids[i] > resp.ids[j]

\* s holds sub as a substring, without regard to case, no character of sub
\* standing for any other
LiteralContains(s, sub) ==
  \E off \in 0..(Len(s) - Len(sub)) :
    \A j \in 1..Len(sub) : Lower(s[off + j]) = Lower(sub[j])

\* C9: fetch_data returns exactly the stored records whose learner_id holds
\* the parameter as a literal case-insensitive substring and whose timestamp
\* lies between from and to, both ends included
ExactFilter ==
  IsFetch /\ resp.kind = "rows" =>
    {resp.ids[i] : i \in 1..Len(resp.ids)} =
      {i \in 1..Len(table) :
         /\ LiteralContains(table[i].learner_id, req.lid)
         /\ req.fromd.k = "time" => table[i].timestamp >= req.fromd.n
         /\ req.tod.k = "time" => table[i].timestamp <= req.tod.n}

NoConnectionLeaked ==
  /\ obs.acquired => obs.returned
  /\ used = 0

\* an id that is present: a string of at least one character (not missing,
\* not null, not "")
IdPresent(v) == v.k = "str" /\ v.s # <<>>

\* the elements of a list of mappings that carry both ids
WithBothIds(body) ==
  {i \in 1..Len(body.items) :
     IdPresent(body.items[i].lesson_id) /\ IdPresent(body.items[i].learner_id)}

\* C12: a record whose lesson_id or learner_id is missing, null or "" is
\* skipped and the other records of the batch are inserted and committed, so
\* no stored row has a null or empty id (a stored null would read as the
\* empty sequence here); a whitespace-only learner_id counts as present: its
\* record is stored, and fetch_data without filter returns every stored row
SkipsBlankIds ==
  /\ \A i \in 1..Len(table) :
       table[i].lesson_id # <<>> /\ table[i].learner_id # <<>>
  /\ IsSave /\ obs.acquired /\ IsSeqOfMappings(req.body) /\ obs.failed = 0 =>
       /\ resp.status = 200
       /\ obs.committed = Cardinality(WithBothIds(req.body))
       /\ obs.skipped = Len(req.body.items) - Cardinality(WithBothIds(req.body))
  /\ IsFetch /\ resp.kind = "rows" /\ req.lid = <<>>
       /\ req.fromd.k = "absent" /\ req.tod.k = "absent" =>
       {resp.ids[i] : i \in 1..Len(resp.ids)} = 1..Len(table)

\* a batch whose first record has no lesson_id has been answered 200 with
\* that record skipped and the record after it stored
SkippedOneStoredNext ==
  /\ IsSave
  /\ resp.status = 200
  /\ Len(req.body.items) = 2
  /\ ~IdPresent(req.body.items[1].lesson_id)
  /\ obs.skipped = 1
  /\ obs.committed = 1

====
